---- MODULE Spec2Model ----
(***************************************************************************)
(* Model of the LWC / quick action generator of salesforcedx-vscode-mobile *)
(*   src/src/utils/codeBuilder.ts               (CodeBuilder)              *)
(*   src/src/commands/wizard/lwcGenerationCommand.ts (LwcGenerationCommand)*)
(*                                                                         *)
(* The disk is a record [files, dirs]: files maps the path of every        *)
(* regular file to its text, dirs is the set of directories.  A path is a  *)
(* sequence of segments; a text is a string, in which a placeholder is the *)
(* marker ///KEY///.                                                       *)
(***************************************************************************)
EXTENDS Integers, Sequences, FiniteSets, TLC

VARIABLES
    disk,               \* the project tree: [files |-> path -> text, dirs |-> set of paths]
    landingPage,        \* the sObjects listed by landing_page.json, in order
    pc,                 \* position of generateMissingLwcsAndQuickActions
    quickActionStatus,  \* its argument: entity -> [view, edit, create]
    queue,              \* the keys of quickActionStatus.sobjects in for-in order
    idx,                \* index in queue of the entity the loop is at
    invoked,            \* <<entity, kind>> -> how often the generation op was invoked in this call
    lastOp,             \* what the last generation operation did, file by file
    newStatus,          \* the value the returned promise resolved with
    statFailed,         \* the <<sobject, qaName>> whose statSync failed in the re-probe
    statFailedBefore,   \* those whose statSync failed in the probe that made the status
    faults,             \* number of failing file operations so far
    opFailed,           \* whether a file operation of this call has failed
    diskBefore,         \* the disk when the current call started
    job,                \* the last application of the variable generator or the renderer
    chooser,            \* position and data of handleLandingPageChosen
    staticResources     \* the files of the staticresources folder: name -> content

vars == <<disk, landingPage, pc, quickActionStatus, queue, idx, invoked,
          lastOp, newStatus, statFailed, statFailedBefore, faults, opFailed, diskBefore,
          job, chooser, staticResources>>

\* the variables of generateMissingLwcsAndQuickActions
flowVars == <<disk, landingPage, pc, quickActionStatus, queue, idx, invoked,
              lastOp, newStatus, statFailed, statFailedBefore, faults, opFailed, diskBefore>>

-----------------------------------------------------------------------------
(* Bounds of the model *)

\* at most this many file operations fail in one behaviour
MaxFaults == 1

\* the field lists given to the variable generator have at most this many fields
MaxFields == 2

\* the templates given to the renderer have at most this many pieces
MaxPieces == 3

\* the status passed in marks at most this many kinds as missing
MaxMissing == 3

\* the entities a landing page or a status may name
Entities == {"Account", "Contact"}

\* the field names generateMissingLwcsAndQuickActions hands to CodeBuilder
FieldNames == <<"Name", "AccountId">>

Kinds == {"view", "edit", "create"}

-----------------------------------------------------------------------------
(* Texts *)

\* the placeholder marker `///${key}///`
Marker(key) == "///" \o key \o "///"

\* String.prototype.toUpperCase / toLowerCase on the field names in use; a
\* name without letters is its own upper and lower case
toUpperCase(s) ==
    CASE s = "Name" -> "NAME"
      [] s = "AccountId" -> "ACCOUNTID"
      [] s = "Id" -> "ID"
      [] OTHER -> s

toLowerCase(s) ==
    CASE s = "Name" -> "name"
      [] s = "AccountId" -> "accountid"
      [] s = "Id" -> "id"
      [] OTHER -> s

\* String.prototype.indexOf, counting from 1: the position of the first
\* occurrence of pattern in s at or after position from, 0 when there is none
indexOfFrom(s, pattern, from) ==
    LET n == Len(pattern)
        found == {i \in from..(Len(s) - n + 1) : SubSeq(s, i, i + n - 1) = pattern}
    IN IF found = {} THEN 0 ELSE CHOOSE i \in found : \A j \in found : i <= j

indexOf(s, pattern) == indexOfFrom(s, pattern, 1)

\* GetSubstitution of String.prototype.replace for a string pattern (no capture
\* groups): in the replacement text $$ stands for $, $& for the matched text,
\* $` for the text before the match and $' for the text after it; any other $
\* is kept as it is.  Scans replacement from position from on.
RECURSIVE GetSubstitution(_, _, _, _, _)
GetSubstitution(matched, before, after, replacement, from) ==
    LET i == indexOfFrom(replacement, "$", from)
        c == SubSeq(replacement, i + 1, i + 1)
    IN IF i = 0 THEN SubSeq(replacement, from, Len(replacement))
       ELSE SubSeq(replacement, from, i - 1) \o
            (CASE c = "$" -> "$" \o GetSubstitution(matched, before, after, replacement, i + 2)
               [] c = "&" -> matched \o GetSubstitution(matched, before, after, replacement, i + 2)
               [] c = "`" -> before \o GetSubstitution(matched, before, after, replacement, i + 2)
               [] c = "'" -> after \o GetSubstitution(matched, before, after, replacement, i + 2)
               [] OTHER -> "$" \o GetSubstitution(matched, before, after, replacement, i + 1))

\* String.prototype.toLocaleLowerCase on the quick action labels
toLocaleLowerCase(s) ==
    CASE s = "View" -> "view"
      [] s = "Edit" -> "edit"
      [] s = "Create" -> "create"
      [] OTHER -> s

-----------------------------------------------------------------------------
(* Paths *)

TEMPLATE_DIR == <<".", "resources", "templates">>
QUICK_ACTION_TEMPLATE_NAME == "quickAction.xml"
LWC_DESTINATION_DIR == <<".", "force-app", "main", "default", "lwc">>
QA_DESTINATION_DIR == <<".", "force-app", "main", "default", "quickActions">>
TEMPLATE_FILE_EXTENSIONS == <<"css", "html", "js", "js-meta.xml">>

\* path.join: concatenates the segments and normalises '.' segments away
RECURSIVE normalize(_)
normalize(p) ==
    IF p = <<>> THEN <<>>
    ELSE IF Head(p) = "." THEN normalize(Tail(p))
    ELSE <<Head(p)>> \o normalize(Tail(p))

pathJoin(a, b) == normalize(a \o b)

-----------------------------------------------------------------------------
(* The template store: the files under resources/templates *)

TemplateNames == {"viewRecord", "editRecord", "createRecord"}

TemplateBody(template, extension) ==
    CASE extension = "css" -> ":host { display: block; }"
      [] extension = "html" ->
            "<template>"
            \o Marker(CASE template = "createRecord" -> "TEMPLATE_LIGHTNING_INPUT_CREATE_FIELDS_HTML"
                        [] template = "editRecord" -> "TEMPLATE_LIGHTNING_INPUT_EDIT_FIELDS_HTML"
                        [] OTHER -> "TEMPLATE_OBJECT_API_NAME")
            \o "</template>"
      [] extension = "js" ->
            Marker("TEMPLATE_IMPORTS") \o "export default class {"
            \o Marker("TEMPLATE_VARIABLES") \o Marker("TEMPLATE_VARIABLE_ASSIGNMENTS")
            \o "fields = [" \o Marker("TEMPLATE_FIELDS") \o "]; objectApiName = '"
            \o Marker("TEMPLATE_OBJECT_API_NAME") \o "'; }"
      [] OTHER ->
            "<masterLabel>"
            \o Marker(CASE template = "createRecord" -> "TEMPLATE_CREATE_LWC_LABEL"
                        [] template = "editRecord" -> "TEMPLATE_EDIT_LWC_LABEL"
                        [] OTHER -> "TEMPLATE_VIEW_LWC_LABEL")
            \o "</masterLabel>"

QuickActionTemplateBody ==
    "<QuickAction><label>" \o Marker("TEMPLATE_QUICK_ACTION_LABEL")
    \o "</label><lightningWebComponent>" \o Marker("TEMPLATE_LWC_NAME")
    \o "</lightningWebComponent>" \o Marker("TEMPLATE_QUICK_ACTION_ICON")
    \o "</QuickAction>"

TemplateStore ==
    LET lwcPaths == {pathJoin(TEMPLATE_DIR, <<t, t \o "." \o TEMPLATE_FILE_EXTENSIONS[i]>>) :
                        t \in TemplateNames, i \in 1..Len(TEMPLATE_FILE_EXTENSIONS)}
        qaPath == pathJoin(TEMPLATE_DIR, <<QUICK_ACTION_TEMPLATE_NAME>>)
    IN [p \in lwcPaths \cup {qaPath} |->
            IF p = qaPath THEN QuickActionTemplateBody
            ELSE LET t == p[Len(p) - 1]
                     i == CHOOSE j \in 1..Len(TEMPLATE_FILE_EXTENSIONS) :
                              p[Len(p)] = t \o "." \o TEMPLATE_FILE_EXTENSIONS[j]
                 IN TemplateBody(t, TEMPLATE_FILE_EXTENSIONS[i])]

-----------------------------------------------------------------------------
(* CodeBuilder *)

\* a TemplateVariables object: its keys in insertion order, each with its value
setVariable(tv, key, value) ==
    IF \E i \in 1..Len(tv) : tv[i].key = key
    THEN [i \in 1..Len(tv) |-> IF tv[i].key = key THEN [key |-> key, value |-> value] ELSE tv[i]]
    ELSE Append(tv, [key |-> key, value |-> value])

getVariable(tv, key) ==
    LET i == CHOOSE j \in 1..Len(tv) : tv[j].key = key IN tv[i].value

\* object spread {...a, ...b}
RECURSIVE spread(_, _)
spread(a, b) ==
    IF b = <<>> THEN a
    ELSE spread(setVariable(a, Head(b).key, Head(b).value), Tail(b))

\* a forEach that puts the fragment of each field in front of the accumulator
RECURSIVE foldFieldsPrepending(_, _, _)
foldFieldsPrepending(objectApiName, fields, acc) ==
    IF fields = <<>> THEN acc
    ELSE LET field == Head(fields)
             fieldNameImport == toUpperCase(field) \o "_FIELD"
             fieldNameVariable == toLowerCase(field) \o "Field"
         IN foldFieldsPrepending(objectApiName, Tail(fields),
              [fields |-> fieldNameImport \o ", " \o acc.fields,
               imports |-> "import " \o fieldNameImport
                              \o " from \"@salesforce/schema/" \o objectApiName
                              \o "." \o field \o "\";\n" \o acc.imports,
               importAliases |-> fieldNameVariable \o " = "
                              \o fieldNameImport \o ";\n\t" \o acc.importAliases,
               variableAssignments |-> toLowerCase(field)
                              \o " = \"\";\n\t" \o acc.variableAssignments,
               createFieldsHtml |-> "<lightning-input-field field-name={" \o fieldNameVariable
                              \o "} value={" \o toLowerCase(field)
                              \o "}></lightning-input-field>\n\t\t\t\t"
                              \o acc.createFieldsHtml,
               editFieldsHtml |-> "<lightning-input-field field-name={" \o fieldNameVariable
                              \o "}></lightning-input-field>\n\t\t\t\t"
                              \o acc.editFieldsHtml])

\* the forEach over this.fieldNames, folding each field into the six accumulators
RECURSIVE foldFields(_, _, _)
foldFields(objectApiName, fields, acc) ==
    IF fields = <<>> THEN acc
    ELSE LET field == Head(fields)
             fieldNameImport == toUpperCase(field) \o "_FIELD"
             fieldNameVariable == toLowerCase(field) \o "Field"
         IN foldFields(objectApiName, Tail(fields),
              [fields |-> acc.fields \o fieldNameImport \o ", ",
               imports |-> acc.imports \o "import " \o fieldNameImport
                              \o " from \"@salesforce/schema/" \o objectApiName
                              \o "." \o field \o "\";\n",
               importAliases |-> acc.importAliases \o fieldNameVariable \o " = "
                              \o fieldNameImport \o ";\n\t",
               variableAssignments |-> acc.variableAssignments \o toLowerCase(field)
                              \o " = \"\";\n\t",
               createFieldsHtml |-> acc.createFieldsHtml
                              \o "<lightning-input-field field-name={" \o fieldNameVariable
                              \o "} value={" \o toLowerCase(field)
                              \o "}></lightning-input-field>\n\t\t\t\t",
               editFieldsHtml |-> acc.editFieldsHtml
                              \o "<lightning-input-field field-name={" \o fieldNameVariable
                              \o "}></lightning-input-field>\n\t\t\t\t"])

generateTemplateVariables(objectApiName, fieldNames) ==
    LET acc == foldFields(objectApiName, fieldNames,
                   [fields |-> "", imports |-> "", importAliases |-> "",
                    variableAssignments |-> "", createFieldsHtml |-> "",
                    editFieldsHtml |-> ""])
        v1 == setVariable(<<>>, "TEMPLATE_OBJECT_API_NAME", objectApiName)
        v2 == setVariable(v1, "TEMPLATE_CREATE_LWC_LABEL",
                  "LWC for creating a/an " \o objectApiName \o " instance.")
        v3 == setVariable(v2, "TEMPLATE_EDIT_LWC_LABEL",
                  "LWC for editing a/an " \o objectApiName \o " instance.")
        v4 == setVariable(v3, "TEMPLATE_VIEW_LWC_LABEL",
                  "LWC for viewing a/an " \o objectApiName \o " instance.")
        v5 == setVariable(v4, "TEMPLATE_FIELDS", acc.fields)
        v6 == setVariable(v5, "TEMPLATE_IMPORTS", acc.imports)
        v7 == setVariable(v6, "TEMPLATE_LIGHTNING_INPUT_CREATE_FIELDS_HTML", acc.createFieldsHtml)
        v8 == setVariable(v7, "TEMPLATE_LIGHTNING_INPUT_EDIT_FIELDS_HTML", acc.editFieldsHtml)
        v9 == setVariable(v8, "TEMPLATE_VARIABLES", acc.importAliases)
    IN setVariable(v9, "TEMPLATE_VARIABLE_ASSIGNMENTS", acc.variableAssignments)

\* a replace that substitutes every occurrence of the marker
RECURSIVE replaceEvery(_, _, _)
replaceEvery(contents, key, value) ==
    LET pattern == Marker(key)
        i == indexOf(contents, pattern)
        before == SubSeq(contents, 1, i - 1)
        after == SubSeq(contents, i + Len(pattern), Len(contents))
    IN IF i = 0 THEN contents
       ELSE before \o GetSubstitution(pattern, before, after, value, 1)
                   \o replaceEvery(after, key, value)

\* String.prototype.replace with a string pattern: the first occurrence only
replaceFirst(contents, key, value) ==
    LET pattern == Marker(key)
        i == indexOf(contents, pattern)
        before == SubSeq(contents, 1, i - 1)
        after == SubSeq(contents, i + Len(pattern), Len(contents))
    IN IF i = 0 THEN contents
       ELSE before \o GetSubstitution(pattern, before, after, value, 1) \o after

RECURSIVE replaceAllTemplateVariables(_, _)
replaceAllTemplateVariables(contents, templateVariables) ==
    IF templateVariables = <<>> THEN contents
    ELSE replaceAllTemplateVariables(
             replaceFirst(contents, Head(templateVariables).key, Head(templateVariables).value),
             Tail(templateVariables))

\* the variables createQuickAction adds to those of the builder
quickActionVariables(label, name, iconName) ==
    LET q1 == setVariable(<<>>, "TEMPLATE_QUICK_ACTION_LABEL", label)
        q2 == setVariable(q1, "TEMPLATE_LWC_NAME", name)
    IN setVariable(q2, "TEMPLATE_QUICK_ACTION_ICON",
                   IF iconName # "" THEN "<icon>" \o iconName \o "</icon>" ELSE "")

\* new CodeBuilder(extensionUri, objectApiName, fieldNames)
CodeBuilder(objectApiName, fieldNames) ==
    [objectApiName |-> objectApiName,
     templateVariables |-> generateTemplateVariables(objectApiName, fieldNames)]

\* the builders generateMissingLwcsAndQuickActions makes, one per entity
Builders == [e \in Entities |-> CodeBuilder(e, FieldNames)]

\* what the builders in use render: every template of the store against the
\* variables of a builder, and the quick action template against those
\* variables with the ones of a quick action added
RenderInputs ==
    {<<TemplateStore[p], Builders[e].templateVariables>> :
        p \in DOMAIN TemplateStore, e \in Entities}
    \cup {<<QuickActionTemplateBody,
            spread(Builders[e].templateVariables,
                   quickActionVariables(x[1], x[2] \o e \o "Record", x[3]))>> :
            e \in Entities,
            x \in {<<"View", "view", "">>, <<"Edit", "edit", "editActionIcon">>,
                    <<"Create", "create", "">>}}

\* replaceAllTemplateVariables, worked out once for the inputs above
Renderings == [x \in RenderInputs |-> replaceAllTemplateVariables(x[1], x[2])]

rendered(contents, templateVariables) ==
    IF <<contents, templateVariables>> \in RenderInputs
    THEN Renderings[<<contents, templateVariables>>]
    ELSE replaceAllTemplateVariables(contents, templateVariables)

\* readFileContents with a catch that returns the text 'undefined' instead of ''
readFileContentsUndefined(filePath, readFails) ==
    IF readFails \/ filePath \notin DOMAIN TemplateStore THEN "undefined"
    ELSE TemplateStore[filePath]

\* readFileSync inside try/catch: the text of the template, '' when the read throws
readFileContents(filePath, readFails) ==
    IF readFails \/ filePath \notin DOMAIN TemplateStore THEN ""
    ELSE TemplateStore[filePath]

\* A generation operation handles five files: the four of TEMPLATE_FILE_EXTENSIONS
\* (slots 1..4) and the action file (slot 5).  A fault point <<slot, op>> says
\* that file operation op of that slot fails when it is attempted; slot 0
\* stands for a condition of the whole run: a project tree that cannot be
\* written ("readonly"), a template directory that cannot be read ("notemplates").
ActionSlot == Len(TEMPLATE_FILE_EXTENSIONS) + 1
FaultPoints == ((1..ActionSlot) \X {"read", "mkdir", "write"})
                  \cup {<<0, "readonly">>, <<0, "notemplates">>}

readFailsAt(F, i) == <<i, "read">> \in F \/ <<0, "notemplates">> \in F
mkdirFailsAt(F, i) == <<i, "mkdir">> \in F \/ <<0, "readonly">> \in F
writeFailsAt(F, i) == <<i, "write">> \in F \/ <<0, "readonly">> \in F

\* writeFileContents without its two try/catch blocks: a failing mkdirSync or
\* writeFileSync throws out of it
writeFileContentsThrowing(d, dirPath, filename, content, mkdirFails, writeFails) ==
    LET dir == normalize(dirPath)
        filePath == pathJoin(dirPath, <<filename>>)
        mkdirTried == dir \notin d.dirs
    IN IF mkdirTried /\ mkdirFails
       THEN [disk |-> d, path |-> filePath, attempted |-> FALSE,
             wrote |-> FALSE, failed |-> TRUE, threw |-> TRUE]
       ELSE LET d1 == [d EXCEPT !.dirs = @ \cup {dir}]
            IN IF writeFails \/ filePath \in d1.dirs
               THEN [disk |-> d1, path |-> filePath, attempted |-> TRUE,
                     wrote |-> FALSE, failed |-> TRUE, threw |-> TRUE]
               ELSE [disk |-> [d1 EXCEPT !.files =
                                  [q \in DOMAIN @ \cup {filePath} |->
                                      IF q = filePath THEN content ELSE @[q]]],
                     path |-> filePath, attempted |-> TRUE,
                     wrote |-> TRUE, failed |-> FALSE, threw |-> FALSE]

\* writeFileContents that keeps what an existing file holds and adds the new
\* content after it
writeFileContentsMerging(d, dirPath, filename, content, mkdirFails, writeFails) ==
    LET dir == normalize(dirPath)
        filePath == pathJoin(dirPath, <<filename>>)
        mkdirTried == dir \notin d.dirs
    IN IF mkdirTried /\ mkdirFails
       THEN [disk |-> d, path |-> filePath, attempted |-> FALSE,
             wrote |-> FALSE, failed |-> TRUE, threw |-> FALSE]
       ELSE LET d1 == [d EXCEPT !.dirs = @ \cup {dir}]
            IN IF writeFails \/ filePath \in d1.dirs
               THEN [disk |-> d1, path |-> filePath, attempted |-> TRUE,
                     wrote |-> FALSE, failed |-> TRUE, threw |-> FALSE]
               ELSE [disk |-> [d1 EXCEPT !.files =
                                  [q \in DOMAIN @ \cup {filePath} |->
                                      IF q # filePath THEN @[q]
                                      ELSE IF q \in DOMAIN @ THEN @[q] \o content
                                      ELSE content]],
                     path |-> filePath, attempted |-> TRUE,
                     wrote |-> TRUE, failed |-> FALSE, threw |-> FALSE]

\* writeFileContents: mkdirSync when the directory is missing (return when it
\* throws), then writeFileSync (log when it throws).  writeFileSync also throws
\* when the path is a directory (EISDIR).
writeFileContents(d, dirPath, filename, content, mkdirFails, writeFails) ==
    LET dir == normalize(dirPath)
        filePath == pathJoin(dirPath, <<filename>>)
        mkdirTried == dir \notin d.dirs
    IN IF mkdirTried /\ mkdirFails
       THEN [disk |-> d, path |-> filePath, attempted |-> FALSE,
             wrote |-> FALSE, failed |-> TRUE, threw |-> FALSE]
       ELSE LET d1 == [d EXCEPT !.dirs = @ \cup {dir}]
            IN IF writeFails \/ filePath \in d1.dirs
               THEN [disk |-> d1, path |-> filePath, attempted |-> TRUE,
                     wrote |-> FALSE, failed |-> TRUE, threw |-> FALSE]
               ELSE [disk |-> [d1 EXCEPT !.files =
                                  [q \in DOMAIN @ \cup {filePath} |->
                                      IF q = filePath THEN content ELSE @[q]]],
                     path |-> filePath, attempted |-> TRUE,
                     wrote |-> TRUE, failed |-> FALSE, threw |-> FALSE]

\* copyTemplateFile that names the destination after the template instead of
\* after destinationLwc
copyTemplateFileToTemplateName(d, tv, template, destinationLwc, i, F) ==
    LET extension == TEMPLATE_FILE_EXTENSIONS[i]
        templateFilePath == pathJoin(TEMPLATE_DIR, <<template, template \o "." \o extension>>)
        fileContents == readFileContents(templateFilePath, readFailsAt(F, i))
        newFileContents == rendered(fileContents, tv)
        destinationDir == pathJoin(LWC_DESTINATION_DIR, <<template>>)
        destinationFile == template \o "." \o extension
        w == writeFileContents(d, destinationDir, destinationFile, newFileContents,
                               mkdirFailsAt(F, i), writeFailsAt(F, i))
    IN [w EXCEPT !.failed = @ \/ readFailsAt(F, i)]

\* one iteration of the forEach of copyTemplateFiles
copyTemplateFile(d, tv, template, destinationLwc, i, F) ==
    LET extension == TEMPLATE_FILE_EXTENSIONS[i]
        templateFilePath == pathJoin(TEMPLATE_DIR, <<template, template \o "." \o extension>>)
        fileContents == readFileContents(templateFilePath, readFailsAt(F, i))
        newFileContents == rendered(fileContents, tv)
        destinationDir == pathJoin(LWC_DESTINATION_DIR, <<destinationLwc>>)
        destinationFile == destinationLwc \o "." \o extension
        w == writeFileContents(d, destinationDir, destinationFile, newFileContents,
                               mkdirFailsAt(F, i), writeFailsAt(F, i))
    IN [w EXCEPT !.failed = @ \/ readFailsAt(F, i)]

\* what a generation operation has done so far: the disk, one log entry per
\* file handled, and whether an exception is propagating
logEntry(w) == [path |-> w.path, attempted |-> w.attempted, wrote |-> w.wrote,
                failed |-> w.failed]
andThen(acc, w) == [disk |-> w.disk, log |-> Append(acc.log, logEntry(w)), threw |-> w.threw]

\* copyTemplateFiles: the forEach over TEMPLATE_FILE_EXTENSIONS, from iteration
\* i on; an exception leaving an iteration ends the loop
RECURSIVE copyTemplateFiles(_, _, _, _, _, _)
copyTemplateFiles(acc, tv, template, destinationLwc, i, F) ==
    IF i > Len(TEMPLATE_FILE_EXTENSIONS) \/ acc.threw THEN acc
    ELSE copyTemplateFiles(
             andThen(acc, copyTemplateFile(acc.disk, tv, template, destinationLwc, i, F)),
             tv, template, destinationLwc, i + 1, F)

quickActionFileName(objectApiName, label) ==
    objectApiName \o "." \o toLocaleLowerCase(label) \o ".quickAction-meta.xml"

createQuickAction(d, tv, label, name, iconName, F) ==
    LET templateFilePath == pathJoin(TEMPLATE_DIR, <<QUICK_ACTION_TEMPLATE_NAME>>)
        fileContents == readFileContents(templateFilePath, readFailsAt(F, ActionSlot))
        newFileContents == rendered(fileContents,
                                    spread(tv, quickActionVariables(label, name, iconName)))
        objectApiName == getVariable(tv, "TEMPLATE_OBJECT_API_NAME")
        destinationFile == quickActionFileName(objectApiName, label)
        w == writeFileContents(d, QA_DESTINATION_DIR, destinationFile, newFileContents,
                               mkdirFailsAt(F, ActionSlot), writeFailsAt(F, ActionSlot))
    IN [w EXCEPT !.failed = @ \/ readFailsAt(F, ActionSlot)]

\* settle that resolves with whether every file operation succeeded
settleWithSuccess(acc) ==
    [disk |-> acc.disk, log |-> acc.log, resolved |-> ~acc.threw,
     value |-> \A i \in 1..Len(acc.log) : ~acc.log[i].failed]

\* the promise of a generation operation, given what its executor did:
\* resolve(true) is reached unless an exception left the executor before
settle(acc) ==
    [disk |-> acc.disk, log |-> acc.log, resolved |-> ~acc.threw, value |-> TRUE]

\* the body shared by generateView, generateEdit and generateCreate: the
\* executor runs copyTemplateFiles, createQuickAction and resolve(true) in one go
thenCreateQuickAction(acc, tv, label, name, iconName, F) ==
    IF acc.threw THEN acc
    ELSE andThen(acc, createQuickAction(acc.disk, tv, label, name, iconName, F))

generate(d, cb, verb, template, label, iconName, F) ==
    settle(thenCreateQuickAction(
               copyTemplateFiles([disk |-> d, log |-> <<>>, threw |-> FALSE],
                                 cb.templateVariables, template,
                                 verb \o cb.objectApiName \o "Record", 1, F),
               cb.templateVariables, label, verb \o cb.objectApiName \o "Record",
               iconName, F))

generateView(d, cb, F) == generate(d, cb, "view", "viewRecord", "View", "", F)
generateEdit(d, cb, F) == generate(d, cb, "edit", "editRecord", "Edit", "editActionIcon", F)
generateCreate(d, cb, F) == generate(d, cb, "create", "createRecord", "Create", "", F)

-----------------------------------------------------------------------------
(* LwcGenerationCommand *)

\* the outcomes of getSObjectsFromLandingPage: WorkspaceUtils.getStaticResourcesDir
\* rejects ("reject"), the try block throws ("error"), or the sObjects are read ("ok")
LookupOutcomes == {"ok", "error", "reject"}

\* getSObjectsFromLandingPage: the await of getStaticResourcesDir is outside the
\* try, inside an async executor: when it rejects, resolve is never called
getSObjectsFromLandingPage(lp, outcome) ==
    CASE outcome = "reject" -> [settled |-> FALSE, error |-> FALSE, sobjects |-> <<>>]
      [] outcome = "error" -> [settled |-> TRUE, error |-> TRUE, sobjects |-> <<>>]
      [] OTHER -> [settled |-> TRUE, error |-> FALSE, sobjects |-> lp]

\* quickActionPath with the directory misspelt
quickActionPathTypo(sobject, qaName) ==
    <<"force-app", "main", "default", "quickAction",
      sobject \o "." \o qaName \o ".quickAction-meta.xml">>

quickActionPath(sobject, qaName) ==
    <<"force-app", "main", "default", "quickActions",
      sobject \o "." \o qaName \o ".quickAction-meta.xml">>

\* fs.statSync throws when the path does not exist (ENOENT) or cannot be reached
statThrows(d, path, statFails) ==
    statFails \/ (path \notin DOMAIN d.files /\ path \notin d.dirs)

\* checkForExistingQuickAction that asks whether the path exists, not stats.isFile()
checkForExistingQuickActionExists(d, sobject, qaName, statFails) ==
    ~statThrows(d, quickActionPath(sobject, qaName), statFails)

\* checkForExistingQuickAction: stats.isFile(), false when statSync throws
checkForExistingQuickAction(d, sobject, qaName, statFails) ==
    LET path == quickActionPath(sobject, qaName)
    IN IF statThrows(d, path, statFails) THEN FALSE
       ELSE path \in DOMAIN d.files

\* checkForExistingQuickActions(): takes no parameter; probes the sObjects of
\* the landing page.  S is the set of <<sobject, qaName>> whose statSync fails.
checkForExistingQuickActions(d, lp, outcome, S) ==
    LET sObjectsStatus == getSObjectsFromLandingPage(lp, outcome)
        names == {sObjectsStatus.sobjects[i] : i \in 1..Len(sObjectsStatus.sobjects)}
    IN IF ~sObjectsStatus.settled
       THEN [settled |-> FALSE, error |-> FALSE, sobjects |-> [e \in {} |-> 0]]
       ELSE IF sObjectsStatus.error
       THEN [settled |-> TRUE, error |-> TRUE, sobjects |-> [e \in {} |-> 0]]
       ELSE [settled |-> TRUE, error |-> FALSE,
             sobjects |-> [e \in names |->
                 [view |-> checkForExistingQuickAction(d, e, "view", <<e, "view">> \in S),
                  edit |-> checkForExistingQuickAction(d, e, "edit", <<e, "edit">> \in S),
                  create |-> checkForExistingQuickAction(d, e, "create", <<e, "create">> \in S)]]]

-----------------------------------------------------------------------------
(* The states the flow starts from *)

OldText == "edited by hand"

EmptyDisk == [files |-> [p \in {} |-> ""], dirs |-> {}]

lwcDir(name) == <<"force-app", "main", "default", "lwc", name>>
lwcFile(name, extension) == lwcDir(name) \o <<name \o "." \o extension>>
qaDir == <<"force-app", "main", "default", "quickActions">>
qaFile(name) == qaDir \o <<name>>

\* a project that was generated before and edited since: the view artifacts of
\* Contact are complete, its create action file is there without the
\* component, and the path of Account's edit action file is a directory
UsedDisk ==
    LET present == {lwcFile("viewContactRecord", "css"), lwcFile("viewContactRecord", "html"),
                    lwcFile("viewContactRecord", "js"), lwcFile("viewContactRecord", "js-meta.xml"),
                    qaFile("Contact.view.quickAction-meta.xml"),
                    qaFile("Contact.create.quickAction-meta.xml"),
                    qaFile("README.md")}
    IN [files |-> [p \in present |-> OldText],
        dirs |-> {qaDir, lwcDir("viewContactRecord"),
                  qaFile("Account.edit.quickAction-meta.xml")}]

\* the projects a call starts from: the disk and the sObjects of landing_page.json
Projects == {[disk |-> EmptyDisk, landingPage |-> <<"Contact", "Account">>],
             [disk |-> UsedDisk, landingPage |-> <<"Account">>]}

StatusRecords == [view : BOOLEAN, edit : BOOLEAN, create : BOOLEAN]

\* the orders in which the status passed in lists its entities
Queues == {<<>>, <<"Account">>, <<"Contact">>, <<"Account", "Contact">>}

Range(q) == {q[i] : i \in 1..Len(q)}

\* the number of kinds a status marks as missing
NumMissing(st) ==
    Cardinality({x \in (DOMAIN st) \X Kinds :
                    \/ x[2] = "view" /\ ~st[x[1]].view
                    \/ x[2] = "edit" /\ ~st[x[1]].edit
                    \/ x[2] = "create" /\ ~st[x[1]].create})

NoOp == [entity |-> "", kind |-> "", log |-> <<>>, F |-> {}, resolved |-> TRUE, value |-> TRUE]
NoStatus == [settled |-> FALSE, error |-> FALSE, sobjects |-> [e \in {} |-> 0]]
NoJob == [op |-> "none", entity |-> "", fields |-> <<>>, template |-> <<>>,
          vars |-> <<>>, out |-> ""]

-----------------------------------------------------------------------------
(* TemplateChooserCommand: the files of the staticresources folder *)

LANDING_PAGE_FILENAME_PREFIX == "landing_page"
LANDING_PAGE_JSON_FILE_EXTENSION == ".json"
LANDING_PAGE_METADATA_FILE_EXTENSION == ".resource-meta.xml"
LANDING_PAGE_FILENAME_PREFIXES ==
    [existing |-> LANDING_PAGE_FILENAME_PREFIX,
     default |-> LANDING_PAGE_FILENAME_PREFIX \o "_default",
     caseManagement |-> LANDING_PAGE_FILENAME_PREFIX \o "_case_management",
     healthcare |-> LANDING_PAGE_FILENAME_PREFIX \o "_healthcare",
     retail |-> LANDING_PAGE_FILENAME_PREFIX \o "_retail_execution"]

\* LANDING_PAGE_FILENAME_PREFIXES[landingPageType] in a file name: the text
\* 'undefined' for a type that is not a key
filenamePrefix(landingPageType) ==
    IF landingPageType \in DOMAIN LANDING_PAGE_FILENAME_PREFIXES
    THEN LANDING_PAGE_FILENAME_PREFIXES[landingPageType]
    ELSE "undefined"

\* the two extensions the copy loop goes through
LandingPageFileExtensions ==
    <<LANDING_PAGE_JSON_FILE_EXTENSION, LANDING_PAGE_METADATA_FILE_EXTENSION>>

\* the landing page types a landingPageChosen message may carry; "other" is
\* not a key of LANDING_PAGE_FILENAME_PREFIXES
LandingPageTypes == {"existing", "default", "retail", "other"}

\* the template files of the starter kit, each holding a content of its own
\* (written here as the name of the file)
StarterKit ==
    LET names == {LANDING_PAGE_FILENAME_PREFIXES[t] \o x :
                     t \in {"default", "caseManagement", "healthcare", "retail"},
                     x \in {LANDING_PAGE_JSON_FILE_EXTENSION,
                             LANDING_PAGE_METADATA_FILE_EXTENSION}}
    IN [n \in names |-> n]

OwnLandingPage == "landing page of the project"

\* the folder with the files named, each holding the project's own content, added
withOwn(files, names) ==
    [n \in DOMAIN files \cup names |-> IF n \in names THEN OwnLandingPage ELSE files[n]]

\* the folder without the file named
without(files, name) == [n \in DOMAIN files \ {name} |-> files[n]]

\* the folders a choice starts from: the starter kit, complete or lacking the
\* metadata file of the retail template, with no landing page, with
\* landing_page.json alone, or with both landing page files
StaticResourceStates ==
    {withOwn(kit, names) :
        kit \in {StarterKit,
                 without(StarterKit, LANDING_PAGE_FILENAME_PREFIXES.retail
                                        \o LANDING_PAGE_METADATA_FILE_EXTENSION)},
        names \in {{},
                   {LANDING_PAGE_FILENAME_PREFIX \o LANDING_PAGE_JSON_FILE_EXTENSION},
                   {LANDING_PAGE_FILENAME_PREFIX \o LANDING_PAGE_JSON_FILE_EXTENSION,
                    LANDING_PAGE_FILENAME_PREFIX \o LANDING_PAGE_METADATA_FILE_EXTENSION}}}

NoChoice == [pc |-> "idle", landingPageType |-> "", existed |-> FALSE,
             confirmOverwrite |-> "none", i |-> 0, copied |-> {}, result |-> FALSE]

-----------------------------------------------------------------------------

InitFlow ==
    /\ \E project \in Projects :
          /\ disk = project.disk
          /\ landingPage = project.landingPage
    /\ pc = "idle"
    /\ quickActionStatus = [e \in {} |-> 0]
    /\ queue = <<>>
    /\ idx = 0
    /\ invoked = [x \in Entities \X Kinds |-> 0]
    /\ lastOp = NoOp
    /\ newStatus = NoStatus
    /\ statFailed = {}
    /\ statFailedBefore = {}
    /\ faults = 0
    /\ opFailed = FALSE
    /\ diskBefore = disk

Init ==
    /\ InitFlow
    /\ job = NoJob
    /\ chooser = NoChoice
    /\ staticResources = StarterKit

-----------------------------------------------------------------------------
(* generateMissingLwcsAndQuickActions *)

\* the sets of at most n fault points
RECURSIVE FaultSets(_, _)
FaultSets(points, n) ==
    IF n <= 0 THEN {{}}
    ELSE LET S == FaultSets(points, n - 1)
         IN S \cup {s \cup {p} : s \in S, p \in points}

\* a fault point counts only where its file operation is attempted and would
\* otherwise have succeeded
Exercised(r, F) ==
    \A f \in F :
        /\ f[1] <= Len(r.log)
        /\ f[2] = "mkdir" => ~r.log[f[1]].attempted /\ <<0, "readonly">> \notin F
        /\ f[2] = "write" => /\ r.log[f[1]].attempted
                             /\ r.log[f[1]].path \notin r.disk.dirs
                             /\ <<0, "readonly">> \notin F
        /\ f[2] = "read" => <<0, "notemplates">> \notin F

\* the caller passes a status: any of the entities, in any order, any booleans
Call ==
    /\ pc = "idle"
    /\ \E q \in Queues : \E st \in [Range(q) -> StatusRecords] :
          /\ NumMissing(st) <= MaxMissing
          /\ queue' = q
          /\ quickActionStatus' = st
          /\ idx' = IF q = <<>> THEN 0 ELSE 1
          /\ pc' = IF q = <<>> THEN "reprobe" ELSE "view"
    /\ invoked' = [x \in Entities \X Kinds |-> 0]
    /\ opFailed' = FALSE
    /\ diskBefore' = disk
    /\ statFailedBefore' = {}
    /\ UNCHANGED <<disk, landingPage, lastOp, newStatus, statFailed, faults, job, chooser, staticResources>>

\* a loop that takes the entities kind by kind: the view stage of every
\* entity, then the edit stage of every entity, then the create stages
AfterStageByKind(k) ==
    IF idx < Len(queue) THEN [pc |-> k, idx |-> idx + 1]
    ELSE CASE k = "view" -> [pc |-> "edit", idx |-> 1]
           [] k = "edit" -> [pc |-> "create", idx |-> 1]
           [] OTHER -> [pc |-> "reprobe", idx |-> idx]

\* what follows the stage of kind k in the loop body
AfterStage(k) ==
    CASE k = "view" -> [pc |-> "edit", idx |-> idx]
      [] k = "edit" -> [pc |-> "create", idx |-> idx]
      [] OTHER -> IF idx < Len(queue) THEN [pc |-> "view", idx |-> idx + 1]
                  ELSE [pc |-> "reprobe", idx |-> idx]

\* Missing with the view and edit conditions swapped
MissingSwapped(quickActions, k) ==
    CASE k = "view" -> ~quickActions.edit
      [] k = "edit" -> ~quickActions.view
      [] OTHER -> ~quickActions.create

\* whether the loop body generates kind k for the entity with booleans quickActions
Missing(quickActions, k) ==
    CASE k = "view" -> ~quickActions.view
      [] k = "edit" -> ~quickActions.edit
      [] OTHER -> ~quickActions.create

generateKind(d, cb, k, F) ==
    CASE k = "view" -> generateView(d, cb, F)
      [] k = "edit" -> generateEdit(d, cb, F)
      [] OTHER -> generateCreate(d, cb, F)

\* the loop after `await codeBuilder.generateK()` for sobject, whose promise is r
afterGenerate(sobject, k, F, r, next) ==
    /\ Exercised(r, F)
    /\ disk' = r.disk
    /\ invoked' = [invoked EXCEPT ![<<sobject, k>>] = @ + 1]
    /\ lastOp' = [entity |-> sobject, kind |-> k, log |-> r.log, F |-> F,
                  resolved |-> r.resolved, value |-> r.value]
    /\ faults' = faults + Cardinality(F)
    /\ opFailed' = (opFailed \/ \E i \in 1..Len(r.log) : r.log[i].failed)
    /\ IF r.resolved
       THEN pc' = next.pc /\ idx' = next.idx
       ELSE pc' = "pending" /\ idx' = idx

\* one `if (!quickActions.k) { await codeBuilder.generateK(); }` of the loop body
Stage(k) ==
    /\ pc = k
    /\ IF Missing(quickActionStatus[queue[idx]], k)
       THEN \E F \in FaultSets(FaultPoints, MaxFaults - faults) :
               afterGenerate(queue[idx], k, F,
                             generateKind(disk, Builders[queue[idx]], k, F),
                             AfterStage(k))
       ELSE /\ pc' = AfterStage(k).pc
            /\ idx' = AfterStage(k).idx
            /\ UNCHANGED <<disk, invoked, lastOp, faults, opFailed>>
    /\ UNCHANGED <<landingPage, quickActionStatus, queue, newStatus, statFailed,
                   statFailedBefore, diskBefore, job, chooser, staticResources>>

ViewStage == Stage("view")
EditStage == Stage("edit")
CreateStage == Stage("create")

\* the stat calls a probe of landing page lp can make fail: those of paths that exist
StatPoints(d, lp) ==
    {x \in Range(lp) \X Kinds :
        ~statThrows(d, quickActionPath(x[1], x[2]), FALSE)}

\* "Just double check now that things have been created": the re-probe and resolve
Reprobe ==
    /\ pc = "reprobe"
    /\ \E outcome \in LookupOutcomes :
         \E S \in FaultSets(StatPoints(disk, landingPage),
                            MaxFaults - faults - (IF outcome = "ok" THEN 0 ELSE 1)) :
          LET r == checkForExistingQuickActions(disk, landingPage, outcome, S)
              n == Cardinality(S) + (IF outcome = "ok" THEN 0 ELSE 1)
          IN /\ faults + n <= MaxFaults
             /\ outcome # "ok" => S = {}
             /\ faults' = faults + n
             /\ opFailed' = (opFailed \/ n > 0)
             /\ statFailed' = S
             /\ IF r.settled
                THEN pc' = "done" /\ newStatus' = r
                ELSE pc' = "pending" /\ newStatus' = newStatus
    /\ UNCHANGED <<disk, landingPage, quickActionStatus, queue, idx, invoked, lastOp,
                   statFailedBefore, diskBefore, job, chooser, staticResources>>

Next == Call \/ ViewStage \/ EditStage \/ CreateStage \/ Reprobe

Spec == Init /\ [][Next]_vars

-----------------------------------------------------------------------------
(* Reconciliation passes: the status passed in is the one the probe gives *)

\* the keys of results.sobjects in insertion order: the sObjects as listed,
\* each at its first occurrence
RECURSIVE keysInOrder(_, _)
keysInOrder(sobjects, seen) ==
    IF sobjects = <<>> THEN <<>>
    ELSE IF Head(sobjects) \in seen THEN keysInOrder(Tail(sobjects), seen)
    ELSE <<Head(sobjects)>> \o keysInOrder(Tail(sobjects), seen \cup {Head(sobjects)})

\* the generateLwcQuickActionsButton handler for the status r the probe gave:
\* the call of generateMissingLwcsAndQuickActions with it
callWith(r, lp) ==
    /\ quickActionStatus' = r.sobjects
    /\ queue' = (IF r.error THEN <<>> ELSE keysInOrder(lp, {}))
    /\ idx' = (IF r.error \/ lp = <<>> THEN 0 ELSE 1)
    /\ pc' = (IF ~r.settled THEN "pending"
              ELSE IF r.error \/ lp = <<>> THEN "reprobe" ELSE "view")

\* a pass: checkForExistingQuickActions, then generateMissingLwcsAndQuickActions
\* with its result
Reconcile ==
    /\ pc \in {"idle", "done", "crashed"}
    /\ \E outcome \in LookupOutcomes :
         \E S \in FaultSets(StatPoints(disk, landingPage),
                            MaxFaults - faults - (IF outcome = "ok" THEN 0 ELSE 1)) :
          /\ faults + Cardinality(S) + (IF outcome = "ok" THEN 0 ELSE 1) <= MaxFaults
          /\ outcome # "ok" => S = {}
          /\ faults' = faults + Cardinality(S) + (IF outcome = "ok" THEN 0 ELSE 1)
          /\ opFailed' = (S # {} \/ outcome # "ok")
          /\ statFailedBefore' = S
          /\ callWith(checkForExistingQuickActions(disk, landingPage, outcome, S), landingPage)
    /\ invoked' = [x \in Entities \X Kinds |-> 0]
    /\ diskBefore' = disk
    /\ UNCHANGED <<disk, landingPage, lastOp, newStatus, statFailed, job, chooser, staticResources>>

\* the directory of a file
dirname(path) == SubSeq(path, 1, Len(path) - 1)

\* the disk when the process dies after n files of a generation operation that
\* would have ended as r
killedAfter(d, r, n) ==
    LET written == {r.log[i].path : i \in {j \in 1..n : r.log[j].wrote}}
        made == {dirname(r.log[i].path) : i \in {j \in 1..n : r.log[j].attempted}}
    IN [files |-> [p \in DOMAIN d.files \cup written |->
                      IF p \in written THEN r.disk.files[p] ELSE d.files[p]],
        dirs |-> d.dirs \cup made]

killed(sobject, k, r, n) ==
    /\ disk' = killedAfter(disk, r, n)
    /\ invoked' = [invoked EXCEPT ![<<sobject, k>>] = @ + 1]
    /\ lastOp' = [entity |-> sobject, kind |-> k, log |-> SubSeq(r.log, 1, n), F |-> {},
                  resolved |-> FALSE, value |-> FALSE]

\* the process dies in a generation operation, after n of its five files
Crash ==
    /\ pc \in Kinds
    /\ Missing(quickActionStatus[queue[idx]], pc)
    /\ faults < MaxFaults
    /\ \E n \in 0..Len(TEMPLATE_FILE_EXTENSIONS) :
          killed(queue[idx], pc,
                 generateKind(disk, Builders[queue[idx]], pc, {}), n)
    /\ faults' = faults + 1
    /\ opFailed' = TRUE
    /\ pc' = "crashed"
    /\ UNCHANGED <<landingPage, quickActionStatus, queue, idx, newStatus, statFailed,
                   statFailedBefore, diskBefore, job, chooser, staticResources>>

PassNext == Reconcile \/ ViewStage \/ EditStage \/ CreateStage \/ Reprobe \/ Crash

PassSpec == Init /\ [][PassNext]_vars

-----------------------------------------------------------------------------
(* The variable generator and the renderer on their own *)

\* the field names a field list is made of; "$&" is a name that holds a
\* replacement pattern of String.prototype.replace
FieldAlphabet == {"Name", "AccountId", "Id", "$&"}

\* the sequences over S of length at most n
RECURSIVE SeqsUpTo(_, _)
SeqsUpTo(S, n) ==
    IF n = 0 THEN {<<>>}
    ELSE LET shorter == SeqsUpTo(S, n - 1)
         IN shorter \cup {Append(q, x) : q \in shorter, x \in S}

FieldLists == SeqsUpTo(FieldAlphabet, MaxFields)

\* the text made of the pieces, one after the other
RECURSIVE join(_)
join(pieces) == IF pieces = <<>> THEN "" ELSE Head(pieces) \o join(Tail(pieces))

\* the keys generateTemplateVariables gives a value, in the order it sets them
DeclaredKeys ==
    <<"TEMPLATE_OBJECT_API_NAME", "TEMPLATE_CREATE_LWC_LABEL", "TEMPLATE_EDIT_LWC_LABEL",
      "TEMPLATE_VIEW_LWC_LABEL", "TEMPLATE_FIELDS", "TEMPLATE_IMPORTS",
      "TEMPLATE_LIGHTNING_INPUT_CREATE_FIELDS_HTML",
      "TEMPLATE_LIGHTNING_INPUT_EDIT_FIELDS_HTML", "TEMPLATE_VARIABLES",
      "TEMPLATE_VARIABLE_ASSIGNMENTS">>

Reverse(q) == [i \in 1..Len(q) |-> q[Len(q) + 1 - i]]

\* a template with exactly one marker of each of the keys, in their order
OneOfEach(keys) ==
    [i \in 1..(2 * Len(keys)) |->
        IF i % 2 = 1 THEN Marker(keys[(i + 1) \div 2]) ELSE ";"]

\* the pieces a template is made of: markers of three keys and plain text
Pieces == {Marker("K1"), Marker("K2"), Marker("K3"), "x"}

Templates == SeqsUpTo(Pieces, MaxPieces)

\* the placeholder maps given to the renderer: K1 and K2 in either order or
\* alone, K3 never; a value is plain text, empty, a replacement pattern or
\* the marker of the other key
PlaceholderMaps ==
    LET Values == {"v", "", "$&", Marker("K2")}
        one == {setVariable(<<>>, k, v) : k \in {"K1", "K2"}, v \in Values}
        two == {setVariable(setVariable(<<>>, x[1], v), x[2], w) :
                    x \in {<<"K1", "K2">>, <<"K2", "K1">>},
                    v \in Values, w \in {"v", "w"}}
    IN {<<>>} \cup one \cup two

\* new CodeBuilder(..., objectApiName, fieldNames): generateTemplateVariables
GenerateVariables ==
    /\ job.op = "none"
    /\ \E objectApiName \in Entities : \E fieldNames \in FieldLists :
          job' = [op |-> "generate", entity |-> objectApiName, fields |-> fieldNames,
                  template |-> <<>>,
                  vars |-> generateTemplateVariables(objectApiName, fieldNames),
                  out |-> ""]
    /\ UNCHANGED <<flowVars, chooser, staticResources>>

\* replaceAllTemplateVariables of a template with one marker of each declared
\* key against the variables just generated
RenderDeclared ==
    /\ job.op = "generate"
    /\ \E keys \in {DeclaredKeys, Reverse(DeclaredKeys)} :
          job' = [job EXCEPT !.op = "render",
                             !.template = OneOfEach(keys),
                             !.out = replaceAllTemplateVariables(join(OneOfEach(keys)),
                                                                 job.vars)]
    /\ UNCHANGED <<flowVars, chooser, staticResources>>

\* replaceAllTemplateVariables of any template against any placeholder map
RenderWith ==
    /\ job.op = "none"
    /\ \E pieces \in Templates : \E templateVariables \in PlaceholderMaps :
          job' = [op |-> "render", entity |-> "", fields |-> <<>>,
                  template |-> pieces, vars |-> templateVariables,
                  out |-> replaceAllTemplateVariables(join(pieces), templateVariables)]
    /\ UNCHANGED <<flowVars, chooser, staticResources>>

RenderNext == GenerateVariables \/ RenderDeclared \/ RenderWith

RenderSpec == Init /\ [][RenderNext]_vars

-----------------------------------------------------------------------------
(* TemplateChooserCommand.handleLandingPageChosen *)

\* getStaticResourcesDir resolves with the path, or rejects: no workspace
\* folder, or the staticresources folder cannot be accessed
DirOutcomes == {"ok", "reject"}

\* landingPageFilesExist: access() of the two files of the landing page type
landingPageFilesExist(files, landingPageType) ==
    [jsonFileExists |-> filenamePrefix(landingPageType) \o LANDING_PAGE_JSON_FILE_EXTENSION
                            \in DOMAIN files,
     metaFileExists |-> filenamePrefix(landingPageType) \o LANDING_PAGE_METADATA_FILE_EXTENSION
                            \in DOMAIN files]

\* fs/promises copyFile: rejects when the source is missing or the copy fails,
\* else the destination holds what the source holds
copyFile(files, sourceFilename, destFilename, fails) ==
    IF fails \/ sourceFilename \notin DOMAIN files
    THEN [ok |-> FALSE, files |-> files]
    ELSE [ok |-> TRUE,
          files |-> [n \in DOMAIN files \cup {destFilename} |->
                        IF n = destFilename THEN files[sourceFilename] ELSE files[n]]]

ChooserInit ==
    /\ InitFlow
    /\ job = NoJob
    /\ chooser = NoChoice
    /\ staticResources \in StaticResourceStates

\* handleLandingPageChosen up to the warning or the first copy: 'existing'
\* resolves true at once; a rejecting getStaticResourcesDir is awaited outside
\* any try, so the executor ends with neither resolve nor reject called
LandingPageChosen ==
    /\ chooser.pc \in {"idle", "resolved"}
    /\ \E landingPageType \in LandingPageTypes : \E dir \in DirOutcomes :
          LET call == [NoChoice EXCEPT !.landingPageType = landingPageType]
              existingLandingPageFiles == landingPageFilesExist(staticResources, "existing")
          IN chooser' =
               IF landingPageType = "existing"
               THEN [call EXCEPT !.pc = "resolved", !.result = TRUE]
               ELSE IF dir = "reject" THEN [call EXCEPT !.pc = "pending"]
               ELSE IF existingLandingPageFiles.jsonFileExists
                       \/ existingLandingPageFiles.metaFileExists
               THEN [call EXCEPT !.pc = "asking", !.existed = TRUE]
               ELSE [call EXCEPT !.pc = "copying", !.i = 1]
    /\ UNCHANGED <<flowVars, job, staticResources>>

\* window.showWarningMessage returns the button chosen, or undefined when the
\* dialog is dismissed; only 'No' ends the call
ConfirmOverwrite ==
    /\ chooser.pc = "asking"
    /\ \E confirmOverwrite \in {"Yes", "No", "undefined"} :
          chooser' = IF confirmOverwrite = "No"
                     THEN [chooser EXCEPT !.pc = "resolved", !.result = FALSE,
                                          !.confirmOverwrite = confirmOverwrite]
                     ELSE [chooser EXCEPT !.pc = "copying", !.i = 1,
                                          !.confirmOverwrite = confirmOverwrite]
    /\ UNCHANGED <<flowVars, job, staticResources>>

\* one round of the copy loop: await copyFile(sourcePath, destinationPath);
\* after the second round resolve(true); a rejecting copyFile leaves the
\* executor with neither resolve nor reject called
CopyLandingPageFile ==
    /\ chooser.pc = "copying"
    /\ \E fails \in BOOLEAN :
          LET fileExtension == LandingPageFileExtensions[chooser.i]
              sourceFilename == filenamePrefix(chooser.landingPageType) \o fileExtension
              destFilename == LANDING_PAGE_FILENAME_PREFIXES.existing \o fileExtension
              r == copyFile(staticResources, sourceFilename, destFilename, fails)
          IN /\ staticResources' = r.files
             /\ chooser' =
                  IF ~r.ok THEN [chooser EXCEPT !.pc = "pending"]
                  ELSE IF chooser.i < Len(LandingPageFileExtensions)
                  THEN [chooser EXCEPT !.i = @ + 1, !.copied = @ \cup {destFilename}]
                  ELSE [chooser EXCEPT !.pc = "resolved", !.result = TRUE,
                                       !.copied = @ \cup {destFilename}]
    /\ UNCHANGED <<flowVars, job>>

ChooserNext == LandingPageChosen \/ ConfirmOverwrite \/ CopyLandingPageFile

ChooserSpec == ChooserInit /\ [][ChooserNext]_vars

TypeOK ==
    /\ pc \in {"idle", "view", "edit", "create", "reprobe", "done", "pending", "crashed"}
    /\ faults \in 0..MaxFaults
    /\ idx \in 0..Len(queue)
    /\ job.op \in {"none", "generate", "render"}
    /\ chooser.pc \in {"idle", "asking", "copying", "resolved", "pending"}

-----------------------------------------------------------------------------
(* What the specification says about the files of an (entity, kind) *)

\* the four files {verb}{E}Record.{css,html,js,js-meta.xml} in the directory {verb}{E}Record
ExpectedComponentFiles(e, k) ==
    {lwcFile(k \o e \o "Record", x) : x \in {"css", "html", "js", "js-meta.xml"}}

\* the action file {E}.{k}.quickAction-meta.xml in the actions directory
ExpectedActionFile(e, k) == qaFile(e \o "." \o k \o ".quickAction-meta.xml")

ExpectedFiles(e, k) == ExpectedComponentFiles(e, k) \cup {ExpectedActionFile(e, k)}

\* whether status record st marks kind k as present
Marks(st, k) ==
    CASE k = "view" -> st.view
      [] k = "edit" -> st.edit
      [] OTHER -> st.create

MarkedPresent(e, k) == e \in DOMAIN quickActionStatus /\ Marks(quickActionStatus[e], k)
MarkedMissing(e, k) == e \in DOMAIN quickActionStatus /\ ~Marks(quickActionStatus[e], k)

AllPresent == [view |-> TRUE, edit |-> TRUE, create |-> TRUE]

\* the loop over the entities has run to its end
LoopOver == pc \in {"reprobe", "done", "pending"}

\* a generation operation has run, and lastOp describes it
Generated == lastOp.kind # ""

\* slot i of the last generation operation could not read its template
Unreadable(i) == <<i, "read">> \in lastOp.F \/ <<0, "notemplates">> \in lastOp.F

\* the directory creation or the write of slot i of the last generation operation failed
OwnWriteFault(i) ==
    \/ <<i, "mkdir">> \in lastOp.F
    \/ <<i, "write">> \in lastOp.F
    \/ <<0, "readonly">> \in lastOp.F
    \/ lastOp.log[i].path \in disk.dirs

-----------------------------------------------------------------------------
(* Claims *)

\* C1: a kind the status marks present, or of an entity that is not in the
\* status, is never generated; a kind the status marks missing is generated at
\* most once, and exactly once when the loop has run to its end.
C1_MissingOnlyGeneration ==
    \A e \in Entities : \A k \in Kinds :
        /\ ~MarkedMissing(e, k) => invoked[<<e, k>>] = 0
        /\ MarkedMissing(e, k) =>
              /\ invoked[<<e, k>>] <= 1
              /\ LoopOver => invoked[<<e, k>>] = 1

\* C1 witness: the call returned for a status {view: true, edit: false,
\* create: true}, with generateEdit invoked once and nothing else for that entity
C1_Witness ==
    /\ pc = "done"
    /\ \E e \in DOMAIN quickActionStatus :
          /\ quickActionStatus[e] = [view |-> TRUE, edit |-> FALSE, create |-> TRUE]
          /\ invoked[<<e, "edit">>] = 1
          /\ invoked[<<e, "view">>] = 0
          /\ invoked[<<e, "create">>] = 0

\* the status passed in does not mark present a kind whose action file is not on disk
AccurateInput ==
    \A e \in DOMAIN quickActionStatus : \A k \in Kinds :
        MarkedPresent(e, k) => ExpectedActionFile(e, k) \in DOMAIN diskBefore.files

\* C2: when no file operation failed and the status passed in described the
\* disk, the returned status has every entity of the status passed in, with
\* view, edit and create all true.
C2_Converges ==
    (pc = "done" /\ ~opFailed /\ AccurateInput) =>
        \A e \in DOMAIN quickActionStatus :
            /\ e \in DOMAIN newStatus.sobjects
            /\ newStatus.sobjects[e] = AllPresent

\* the part of C2 the code keeps: the same, for the entities of the status
\* passed in that landing_page.json lists (the path createQuickAction writes
\* is the path checkForExistingQuickAction probes)
ConvergesForListedEntities ==
    (pc = "done" /\ ~opFailed /\ AccurateInput) =>
        \A e \in DOMAIN quickActionStatus \cap Range(landingPage) :
            /\ e \in DOMAIN newStatus.sobjects
            /\ newStatus.sobjects[e] = AllPresent

\* C3: the returned mapping has exactly the entities of the status passed in
\* as keys, each boolean being what a probe of the disk after generation gives.
C3_FreshProbeOfInput ==
    pc = "done" =>
        /\ DOMAIN newStatus.sobjects = DOMAIN quickActionStatus
        /\ \A e \in DOMAIN newStatus.sobjects : \A k \in Kinds :
              Marks(newStatus.sobjects[e], k) <=>
                  /\ ExpectedActionFile(e, k) \in DOMAIN disk.files
                  /\ <<e, k>> \notin statFailed

\* C4: the promise of generateMissingLwcsAndQuickActions is never left pending.
C4_AlwaysSettles == pc # "pending"

\* some but not all of the five expected files of (e, k) are on disk d
Partial(d, e, k) ==
    LET n == Cardinality(ExpectedFiles(e, k) \cap DOMAIN d.files)
    IN 0 < n /\ n < 5

\* C5 as stated: a kind of a probed entity that some but not all of its five
\* files were on disk for when the pass started is reported missing by the
\* pass, and its generation operation is invoked again.
C5_PartialIsRegenerated ==
    \A e \in DOMAIN quickActionStatus : \A k \in Kinds :
        Partial(diskBefore, e, k) =>
            /\ MarkedMissing(e, k)
            /\ LoopOver => invoked[<<e, k>>] = 1

\* C5 as amended: of such a kind, the action file alone decides: when it was
\* not on disk, or its stat call failed, the pass reports the kind missing and
\* invokes its generation operation again; when it was on disk and its stat
\* call succeeded, the pass reports the kind present and does not generate it.
C5_ActionFileDecides ==
    \A e \in DOMAIN quickActionStatus : \A k \in Kinds :
        Partial(diskBefore, e, k) =>
            IF /\ ExpectedActionFile(e, k) \in DOMAIN diskBefore.files
               /\ <<e, k>> \notin statFailedBefore
            THEN MarkedPresent(e, k) /\ invoked[<<e, k>>] = 0
            ELSE /\ MarkedMissing(e, k)
                 /\ LoopOver => invoked[<<e, k>>] = 1

\* C5 witness: a pass that started with some component files but no action
\* file of a kind has regenerated it, and all five files are there
C5_Witness ==
    /\ pc = "done"
    /\ \E e \in DOMAIN quickActionStatus : \E k \in Kinds :
          /\ Partial(diskBefore, e, k)
          /\ ExpectedActionFile(e, k) \notin DOMAIN diskBefore.files
          /\ ExpectedActionFile(e, k) \notin diskBefore.dirs
          /\ invoked[<<e, k>>] = 1
          /\ ExpectedFiles(e, k) \subseteq DOMAIN disk.files

\* C6: a generation operation resolves, and resolves with true, whatever its
\* reads, directory creations and writes did.
C6_GenerateReturnsTrue == Generated => lastOp.resolved /\ lastOp.value = TRUE

\* C6 witness: a generation operation that wrote none of its five files
C6_Witness ==
    /\ Generated
    /\ Len(lastOp.log) = 5
    /\ \A i \in 1..5 : ~lastOp.log[i].wrote
    /\ lastOp.value = TRUE

\* C7: a generation operation handles all five files and lets no exception
\* out; a file whose own directory creation and write did not fail is
\* written, whatever happened to the others, and a write is attempted for
\* every file whose own directory creation did not fail.
C7_FailureIsolation ==
    Generated =>
        /\ lastOp.resolved
        /\ Len(lastOp.log) = 5
        /\ \A i \in 1..5 :
              /\ ~OwnWriteFault(i) =>
                    lastOp.log[i].wrote /\ lastOp.log[i].path \in DOMAIN disk.files
              /\ lastOp.log[i].attempted \/ <<i, "mkdir">> \in lastOp.F
                                         \/ <<0, "readonly">> \in lastOp.F

\* C7 witness: the directory creation or the write of one file failed, that
\* file was not written, and the four others were
C7_Witness ==
    /\ Generated
    /\ \E i \in 1..5 :
          /\ <<i, "mkdir">> \in lastOp.F \/ <<i, "write">> \in lastOp.F
          /\ ~lastOp.log[i].wrote
          /\ \A j \in (1..5) \ {i} : lastOp.log[j].wrote

\* C8: an unreadable template does not stop the generation operation: the
\* file is still written unless its own directory creation or write fails,
\* with empty text; an action file written from an unreadable template is
\* reported present by the probe that follows (unless its stat call fails).
C8_UnreadableTemplateGivesEmptyFile ==
    Generated =>
        /\ \A i \in 1..Len(lastOp.log) :
              Unreadable(i) =>
                  /\ lastOp.resolved
                  /\ ~OwnWriteFault(i) => lastOp.log[i].wrote
                  /\ lastOp.log[i].wrote => disk.files[lastOp.log[i].path] = ""
        /\ ( /\ pc = "done"
             /\ Len(lastOp.log) = 5
             /\ Unreadable(5)
             /\ lastOp.log[5].wrote
             /\ lastOp.entity \in DOMAIN newStatus.sobjects
             /\ <<lastOp.entity, lastOp.kind>> \notin statFailed )
           => Marks(newStatus.sobjects[lastOp.entity], lastOp.kind)

\* C8 witness: the action template was unreadable, the action file was written
\* empty, and the re-probe reported the kind present
C8_Witness ==
    /\ pc = "done"
    /\ Generated
    /\ <<5, "read">> \in lastOp.F
    /\ lastOp.log[5].wrote
    /\ disk.files[ExpectedActionFile(lastOp.entity, lastOp.kind)] = ""
    /\ lastOp.entity \in DOMAIN newStatus.sobjects
    /\ Marks(newStatus.sobjects[lastOp.entity], lastOp.kind)

\* C9: the probe reports a kind present exactly when the stat call of
\* {entity}.{kind}.quickAction-meta.xml in the actions directory does not fail
\* and the path is a regular file; absent paths, directories and failing stat
\* calls give false.
C9_ProbeIsFileCheck ==
    (pc = "done" /\ ~newStatus.error) =>
        \A e \in DOMAIN newStatus.sobjects : \A k \in Kinds :
            Marks(newStatus.sobjects[e], k) <=>
                /\ ExpectedActionFile(e, k) \in DOMAIN disk.files
                /\ <<e, k>> \notin statFailed

\* C9 witness: one probe run that met a directory (false), a regular file
\* whose stat call failed (false) and a regular file (true)
C9_Witness ==
    /\ pc = "done"
    /\ \E e \in DOMAIN newStatus.sobjects :
        \E kd \in Kinds, kf \in Kinds, kt \in Kinds :
          /\ ExpectedActionFile(e, kd) \in disk.dirs
          /\ ~Marks(newStatus.sobjects[e], kd)
          /\ ExpectedActionFile(e, kf) \in DOMAIN disk.files
          /\ <<e, kf>> \in statFailed
          /\ ~Marks(newStatus.sobjects[e], kf)
          /\ ExpectedActionFile(e, kt) \in DOMAIN disk.files
          /\ Marks(newStatus.sobjects[e], kt)

\* file p is created, removed or given another text by the step
Changed(p) ==
    \/ (p \in DOMAIN disk.files) # (p \in DOMAIN disk'.files)
    \/ /\ p \in DOMAIN disk.files
       /\ p \in DOMAIN disk'.files
       /\ disk.files[p] # disk'.files[p]

\* the expected files of two distinct (entity, kind) pairs are disjoint
DisjointExpectedFiles ==
    \A x \in Entities \X Kinds : \A y \in (Entities \X Kinds) \ {x} :
        ExpectedFiles(x[1], x[2]) \cap ExpectedFiles(y[1], y[2]) = {}

\* C10: a step changes a file only when it is the generation of a kind the
\* status marks missing, and then only the five expected files of that
\* (entity, kind); these sets are disjoint, so the files of a kind marked
\* present are never changed.
C10_Frame ==
    [][ /\ DisjointExpectedFiles
        /\ \A p \in DOMAIN disk.files \cup DOMAIN disk'.files :
              Changed(p) =>
                  /\ pc \in Kinds
                  /\ MarkedMissing(queue[idx], pc)
                  /\ p \in ExpectedFiles(queue[idx], pc) ]_vars

\* C10 witness: a call that generated the edit kind of an entity whose view
\* kind was present returned, with all five edit files written and the files
\* of the view kind and an unrelated file as they were
C10_Witness ==
    /\ pc = "done"
    /\ \E e \in DOMAIN quickActionStatus :
          /\ Marks(quickActionStatus[e], "view")
          /\ invoked[<<e, "edit">>] = 1
          /\ \A p \in ExpectedFiles(e, "edit") : p \in DOMAIN disk.files
          /\ \A p \in ExpectedFiles(e, "view") :
                p \in DOMAIN disk.files /\ disk.files[p] = OldText
          /\ qaFile("README.md") \in DOMAIN disk.files
          /\ disk.files[qaFile("README.md")] = OldText

-----------------------------------------------------------------------------
(* Idempotence of generation *)

\* no directory creation or file write of fault set F is made to fail
NoWriteFault(F) ==
    \A f \in F : f[2] \notin {"mkdir", "write", "readonly"}

\* C11: when a step is a generation operation for (entity, kind) none of whose
\* writes is made to fail, running the same operation again on the disk it
\* left, with the same templates readable, leaves the disk as it is; and every
\* file the operation wrote holds what the operation writes on an empty
\* project, whatever the file held before.
C11_Idempotent ==
    [][ \A e \in Entities : \A k \in Kinds :
          (/\ invoked'[<<e, k>>] = invoked[<<e, k>>] + 1
           /\ lastOp'.resolved
           /\ NoWriteFault(lastOp'.F))
          => LET again == generateKind(disk', Builders[e], k, lastOp'.F)
                 fresh == generateKind(EmptyDisk, Builders[e], k, lastOp'.F)
             IN /\ again.resolved
                /\ again.disk = disk'
                /\ \A i \in 1..Len(lastOp'.log) :
                      lastOp'.log[i].wrote =>
                          /\ lastOp'.log[i].path \in ExpectedFiles(e, k)
                          /\ disk'.files[lastOp'.log[i].path]
                                = fresh.disk.files[lastOp'.log[i].path] ]_vars

\* C11 witness: the view kind of Contact was generated over five files that
\* held other text before the call, every one of them was written, and none
\* holds the old text any more
C11_Witness ==
    /\ lastOp.entity = "Contact" /\ lastOp.kind = "view"
    /\ lastOp.F = {}
    /\ invoked[<<"Contact", "view">>] = 1
    /\ \A i \in 1..Len(lastOp.log) : lastOp.log[i].wrote
    /\ \A p \in ExpectedFiles("Contact", "view") :
          /\ p \in DOMAIN diskBefore.files /\ diskBefore.files[p] = OldText
          /\ p \in DOMAIN disk.files /\ disk.files[p] # OldText

-----------------------------------------------------------------------------
(* The renderer and the variable generator *)

\* the keys of a placeholder map
Keys(tv) == {tv[i].key : i \in 1..Len(tv)}

\* a text that holds no replacement pattern and no marker
Plain(text) == indexOf(text, "$") = 0 /\ indexOf(text, "///") = 0

PlainValues(tv) == \A i \in 1..Len(tv) : Plain(tv[i].value)

\* piece i is the first marker of key in the template
FirstMarker(pieces, key, i) ==
    /\ pieces[i] = Marker(key)
    /\ \A j \in 1..(i - 1) : pieces[j] # Marker(key)

\* the template with the first marker of every key of the map replaced by the
\* value of the key and every other piece as it is
FirstOccurrencesReplaced(pieces, tv) ==
    [i \in 1..Len(pieces) |->
        IF \E n \in 1..Len(tv) : FirstMarker(pieces, tv[n].key, i)
        THEN tv[CHOOSE n \in 1..Len(tv) : FirstMarker(pieces, tv[n].key, i)].value
        ELSE pieces[i]]

\* C12: rendering a template against a map of plain values gives the template
\* with, for every key of the map, the first marker of the key replaced by its
\* value; a second marker of the same key and the markers of keys that are not
\* in the map stay in the output as they are.
C12_FirstOccurrenceOnly ==
    (job.op = "render" /\ PlainValues(job.vars))
    => job.out = join(FirstOccurrencesReplaced(job.template, job.vars))

\* C12 witness: a template with two markers of K1 and one of K3 was rendered
\* against a map that gives K1 a plain value and has no K3: the output holds
\* the value, then the second marker of K1 and the marker of K3
C12_Witness ==
    /\ job.op = "render"
    /\ job.template = <<Marker("K1"), Marker("K1"), Marker("K3")>>
    /\ job.vars = <<[key |-> "K1", value |-> "v"]>>
    /\ job.out = "v" \o Marker("K1") \o Marker("K3")

\* the template rendered holds exactly one marker of every declared key
OneMarkerOfEach(pieces) ==
    \A n \in 1..Len(DeclaredKeys) :
        Cardinality({i \in 1..Len(pieces) : pieces[i] = Marker(DeclaredKeys[n])}) = 1

\* C13: after rendering a template with exactly one marker of each declared
\* key against the variables generated for an entity and a field list, the
\* output holds no marker of a key of these variables.
C13_RenderComplete ==
    (job.op = "render" /\ job.entity # "" /\ OneMarkerOfEach(job.template))
    => \A key \in Keys(job.vars) : indexOf(job.out, Marker(key)) = 0

\* the same for field names that hold no replacement pattern: no marker remains
RenderCompleteForPlainNames ==
    (/\ job.op = "render" /\ job.entity # "" /\ OneMarkerOfEach(job.template)
     /\ \A i \in 1..Len(job.fields) : Plain(job.fields[i]))
    => \A key \in Keys(job.vars) : indexOf(job.out, Marker(key)) = 0

\* the fragment a field adds to the value of an accumulated key
Fragment(key, objectApiName, field) ==
    CASE key = "TEMPLATE_FIELDS" -> toUpperCase(field) \o "_FIELD, "
      [] key = "TEMPLATE_IMPORTS" ->
            "import " \o toUpperCase(field) \o "_FIELD from \"@salesforce/schema/"
            \o objectApiName \o "." \o field \o "\";\n"
      [] key = "TEMPLATE_LIGHTNING_INPUT_CREATE_FIELDS_HTML" ->
            "<lightning-input-field field-name={" \o toLowerCase(field) \o "Field} value={"
            \o toLowerCase(field) \o "}></lightning-input-field>\n\t\t\t\t"
      [] key = "TEMPLATE_LIGHTNING_INPUT_EDIT_FIELDS_HTML" ->
            "<lightning-input-field field-name={" \o toLowerCase(field)
            \o "Field}></lightning-input-field>\n\t\t\t\t"
      [] key = "TEMPLATE_VARIABLES" ->
            toLowerCase(field) \o "Field = " \o toUpperCase(field) \o "_FIELD;\n\t"
      [] OTHER -> toLowerCase(field) \o " = \"\";\n\t"

AccumulatedKeys ==
    {"TEMPLATE_FIELDS", "TEMPLATE_IMPORTS", "TEMPLATE_LIGHTNING_INPUT_CREATE_FIELDS_HTML",
     "TEMPLATE_LIGHTNING_INPUT_EDIT_FIELDS_HTML", "TEMPLATE_VARIABLES",
     "TEMPLATE_VARIABLE_ASSIGNMENTS"}

\* the fragments of the fields, in the order of the field list
Fragments(key, objectApiName, fields) ==
    join([i \in 1..Len(fields) |-> Fragment(key, objectApiName, fields[i])])

\* C14: each of the six accumulated values of the variables generated for an
\* entity and a field list is the fragments of the fields one after the other
\* in the order of the list; the variables generated for the list in reverse
\* order hold the same fragments in reverse order; fields [Name, AccountId]
\* give TEMPLATE_FIELDS = "NAME_FIELD, ACCOUNTID_FIELD, " and an empty list
\* gives six empty texts.
C14_OrderPreserved ==
    job.op = "generate" =>
        /\ \A key \in AccumulatedKeys :
              /\ getVariable(job.vars, key) = Fragments(key, job.entity, job.fields)
              /\ getVariable(generateTemplateVariables(job.entity, Reverse(job.fields)), key)
                    = Fragments(key, job.entity, Reverse(job.fields))
              /\ job.fields = <<>> => getVariable(job.vars, key) = ""
        /\ job.fields = <<"Name", "AccountId">>
              => getVariable(job.vars, "TEMPLATE_FIELDS") = "NAME_FIELD, ACCOUNTID_FIELD, "

\* C14 witness: the variables were generated for the fields [Name, AccountId]
\* and TEMPLATE_FIELDS names them in that order
C14_Witness ==
    /\ job.op = "generate"
    /\ job.fields = <<"Name", "AccountId">>
    /\ getVariable(job.vars, "TEMPLATE_FIELDS") = "NAME_FIELD, ACCOUNTID_FIELD, "
    /\ getVariable(job.vars, "TEMPLATE_FIELDS") # "ACCOUNTID_FIELD, NAME_FIELD, "

-----------------------------------------------------------------------------
(* Sequential processing *)

\* the stages of the loop body, in order
KindOrder == <<"view", "edit", "create">>

\* the position of pc among the stages of the current entity; past them all
\* once the loop is over
StageAt == IF pc \in Kinds THEN CHOOSE n \in 1..3 : KindOrder[n] = pc ELSE 4

\* the generation operations of the entity at position j of kind number n have
\* all been run: once if the status marks the kind missing, else not at all
Completed(j, n) ==
    invoked[<<queue[j], KindOrder[n]>>]
        = IF Missing(quickActionStatus[queue[j]], KindOrder[n]) THEN 1 ELSE 0

NotBegun(j, n) == invoked[<<queue[j], KindOrder[n]>>] = 0

\* C15: between two steps no generation operation is under way: the last one
\* has resolved after handling all its five files; while the loop is at an
\* entity, every operation of the entities before it has been run and none of
\* the entities after it has begun, and of the entity itself the kinds before
\* the current stage are done and the others have not begun; the re-probe has
\* neither failed a stat call nor resolved before the loop is over, and when
\* it is over every operation of every entity has been run.
C15_Sequential ==
    /\ Generated => lastOp.resolved /\ Len(lastOp.log) = ActionSlot
    /\ pc \in Kinds \cup {"reprobe", "done"} =>
          \A j \in 1..Len(queue) : \A n \in 1..3 :
              /\ (j < idx \/ (j = idx /\ n < StageAt) \/ ~(pc \in Kinds)) => Completed(j, n)
              /\ (pc \in Kinds /\ (j > idx \/ (j = idx /\ n >= StageAt))) => NotBegun(j, n)
    /\ pc \in Kinds => ~newStatus.settled /\ statFailed = {}

\* C15 witness: the loop is at the second entity, which needs a generation,
\* after two generation operations of the first entity
C15_Witness ==
    /\ Len(queue) = 2 /\ idx = 2 /\ pc = "view"
    /\ Cardinality({k \in Kinds : invoked[<<queue[1], k>>] = 1}) = 2
    /\ \E k \in Kinds : Missing(quickActionStatus[queue[2]], k)
    /\ \A k \in Kinds : invoked[<<queue[2], k>>] = 0

-----------------------------------------------------------------------------
(* Choosing a landing page *)

\* the call found a landing page file and the warning was not answered 'Yes'
NotConfirmed ==
    chooser.existed /\ chooser.confirmOverwrite \in {"No", "undefined"}

\* C16: when a landing page file existed and the warning was answered 'No' or
\* dismissed, the call copies no file and does not resolve with true; when the
\* type chosen is 'existing' the call copies no file and resolves with true.
C16_OverwriteOnlyWithConsent ==
    /\ NotConfirmed =>
          /\ chooser.copied = {}
          /\ chooser.pc = "resolved" => ~chooser.result
    /\ chooser.landingPageType = "existing" =>
          chooser.copied = {} /\ chooser.pc = "resolved" /\ chooser.result

\* what holds of it: the answer 'No' and the type 'existing' copy nothing
NoAndExistingCopyNothing ==
    /\ (chooser.existed /\ chooser.confirmOverwrite = "No") =>
          chooser.copied = {} /\ chooser.pc = "resolved" /\ ~chooser.result
    /\ chooser.landingPageType = "existing" =>
          chooser.copied = {} /\ chooser.pc = "resolved" /\ chooser.result

\* C17: the promise of handleLandingPageChosen is never left pending, and it
\* does not resolve with true after copying only one of the two files.
C17_SettlesBothOrNone ==
    /\ chooser.pc # "pending"
    /\ (chooser.pc = "resolved" /\ chooser.result) => Cardinality(chooser.copied) # 1

\* what holds of it: true is never the result after one copy alone
NeverTrueAfterOneCopy ==
    (chooser.pc = "resolved" /\ chooser.result) => Cardinality(chooser.copied) # 1

====
